---------------------------- MODULE Spec2Model ----------------------------
(***************************************************************************)
(* The audio output mixer core of src/audio_output/mixer.c: the mixer      *)
(* binding (aout_MixerNew, aout_MixerDelete, aout_MixerMultiplierSet), the *)
(* alignment tick MixBuffer and its driver aout_MixerRun.                  *)
(*                                                                         *)
(* Times are microseconds, cursors are byte offsets into the payload of    *)
(* the head buffer.  One call of MixBuffer is one step: it runs under the  *)
(* mixer lock and takes the input-FIFO lock for all of its queue work, and *)
(* mdate() is read as one value during a tick.                             *)
(***************************************************************************)
EXTENDS Integers, Sequences, FiniteSets, TLC

(***************************************************************************)
(* Bounds of the model.                                                    *)
(***************************************************************************)
\* largest presentation time a producer stamps on a buffer
MaxPts == 4
\* most buffers a producer leaves queued on one input
MaxQueue == 2
\* last value of the wall clock
MaxNow == 3
\* the output FIFO is counted up to this many blocks
MaxOut == 1
\* a dangling cursor is read up to this many frames off the expected byte
MaxWild == 1

(***************************************************************************)
(* p_aout->pp_inputs is a function from the input indices 0 .. n - 1, and  *)
(* p_aout->i_nb_inputs the number of them.  InputIds are the indices of an *)
(* output with two inputs, OneInput those of an output with one.           *)
(***************************************************************************)
InputIds == {0, 1}

OneInput == {0}

i_nb_inputs(inputs) == Cardinality(DOMAIN inputs)

(***************************************************************************)
(* Audio formats.  FmtLinear is a PCM format of 500 kHz whose frame is one *)
(* sample of 2 bytes (one frame lasts 2 us, so that odd distances are      *)
(* sub-frame distances); FmtSpdif is the same stream marked as a           *)
(* pass-through format; Fmt48k is the format of the end-to-end scenarios.  *)
(* nb_samples is p_aout->output.i_nb_samples, the size of an output block. *)
(***************************************************************************)
FmtLinear ==
    [i_format |-> "fl32", i_rate |-> 500000, i_bytes_per_frame |-> 2,
     i_frame_length |-> 1, nb_samples |-> 1]

FmtSpdif ==
    [i_format |-> "spdi", i_rate |-> 500000, i_bytes_per_frame |-> 2,
     i_frame_length |-> 1, nb_samples |-> 1]

Fmt48k ==
    [i_format |-> "fl32", i_rate |-> 48000, i_bytes_per_frame |-> 4,
     i_frame_length |-> 1, nb_samples |-> 1024]

AOUT_FMT_NON_LINEAR(fmt) == fmt.i_format = "spdi"

(***************************************************************************)
(* Integer helpers.  C's division truncates toward zero.                   *)
(***************************************************************************)
TruncDiv(a, b) == IF a >= 0 THEN a \div b ELSE -((-a) \div b)

RECURSIVE GCD(_, _)
GCD(a, b) == IF b = 0 THEN a ELSE GCD(b, a % b)

Max(a, b) == IF a >= b THEN a ELSE b

Min(a, b) == IF a <= b THEN a ELSE b

(***************************************************************************)
(* date_t: a date in microseconds with the remainder of the sample         *)
(* division (Bresenham), the divider being the sample rate.                *)
(***************************************************************************)
date_Set(i_new_date) == [date |-> i_new_date, rem |-> 0]

date_Get(p_date) == p_date.date

date_Increment(p_date, i_nb_samples, i_rate) ==
    LET i_dividend == i_nb_samples * 1000000
        d == p_date.date + (i_dividend \div i_rate)
        r == p_date.rem + (i_dividend % i_rate)
    IN  IF r >= i_rate THEN [date |-> d + 1, rem |-> r - i_rate]
                       ELSE [date |-> d, rem |-> r]

(***************************************************************************)
(* Buffers, cursors and inputs.                                            *)
(*   A buffer is [i_pts, i_length, i_nb_bytes, freed]; freed is TRUE once  *)
(*   aout_BufferFree was called on it.  A FIFO is the sequence of buffers  *)
(*   reachable from p_first, and pp_last says what the tail pointer        *)
(*   designates: "head" (&p_first), "tail" (the p_next of the last buffer  *)
(*   of the sequence) or "gone" (the p_next of a buffer that left it).     *)
(*   begin is NULL, a byte offset into the head's payload ("at"), or       *)
(*   "stale": it still points into a buffer that was freed and unlinked.   *)
(*   produced is the decoder's side of an input: the end of the last       *)
(*   buffer it has pushed.                                                 *)
(***************************************************************************)
NULL == [k |-> "null", off |-> 0]

At(n) == [k |-> "at", off |-> n]

Stale == [k |-> "stale", off |-> 0]

NewBuffer(pts, samples, fmt) ==
    [i_pts |-> pts,
     i_length |-> (samples * 1000000) \div fmt.i_rate,
     i_nb_bytes |-> (samples * fmt.i_bytes_per_frame) \div fmt.i_frame_length,
     freed |-> FALSE]

EndOf(b) == b.i_pts + b.i_length

EmptyInput ==
    [fifo |-> << >>, pp_last |-> "head", begin |-> NULL,
     b_error |-> FALSE, b_paused |-> FALSE, is_invalid |-> FALSE,
     produced |-> 0]

NoMixer == [bound |-> FALSE]

NoBlock == [i_pts |-> -1, i_length |-> 0]

VARIABLES
    p_mixer,          \* p_aout->p_mixer: NoMixer or the bound mixer
    mixer_format,     \* p_aout->mixer_format
    mixer_multiplier, \* p_aout->mixer_multiplier
    pp_inputs,        \* p_aout->pp_inputs[i]: fifo, pp_last, begin, flags
    output,           \* p_aout->output.fifo: end_date and queued blocks
    now,              \* mdate()
    pc,               \* "idle", or "run" inside the loop of aout_MixerRun
    ret,              \* what the last MixBuffer returned: 0 or -1
    lastOut,          \* the last block handed to aout_OutputPlay
    prevOut,          \* the block handed to aout_OutputPlay before lastOut
    resetSince,       \* the output clock was reset since lastOut
    resetBetween      \* the output clock was reset between prevOut and lastOut

vars == <<p_mixer, mixer_format, mixer_multiplier, pp_inputs, output, now,
          pc, ret, lastOut, prevOut, resetSince, resetBetween>>

(***************************************************************************)
(* aout_FifoPop unlinks the head; aout_FifoSet (on the output FIFO) frees  *)
(* every queued block and sets the end date.                               *)
(***************************************************************************)
aout_FifoPop(p_input) ==
    [p_input EXCEPT !.fifo = Tail(@),
                    !.pp_last = IF Len(p_input.fifo) = 1 THEN "head" ELSE @]

aout_FifoSet(p_fifo, date) ==
    [p_fifo EXCEPT !.end_date = date_Set(date), !.nb = 0]

(***************************************************************************)
(* MixBuffer, no mixer bound (lines 102-120): every buffer of every        *)
(* non-errored input is freed.  Neither p_first, pp_last nor begin is      *)
(* written, so the buffers stay linked from the FIFO.                      *)
(***************************************************************************)
FreeAll(fifo) == [n \in 1..Len(fifo) |-> [fifo[n] EXCEPT !.freed = TRUE]]

MixDetached(inputs) ==
    [i \in DOMAIN inputs |->
        IF inputs[i].b_error THEN inputs[i]
        ELSE [inputs[i] EXCEPT !.fifo = FreeAll(@)]]

(***************************************************************************)
(* Step D (lines 146-187): find the latest start date available.  The loop *)
(* visits the inputs in index order and stops at the first valid input     *)
(* that has nothing left at or after mdate(); what it popped stays popped. *)
(* start_date is kept as date_Get of exact_start_date, which the code      *)
(* sets together.  The result is [inputs, exact, i], i the index the loop  *)
(* stopped at.  FoundStart is the loop body after the while loop that      *)
(* trashes the stale buffers of input i, p_input being what it left.       *)
(* FoundStartFirst is the body that keeps the first head date it met.      *)
(***************************************************************************)
RECURSIVE TrashStale(_, _)
TrashStale(p_input, mdate) ==
    IF p_input.fifo # << >> /\ Head(p_input.fifo).i_pts < mdate
    THEN TrashStale([aout_FifoPop(p_input) EXCEPT !.begin = NULL], mdate)
    ELSE p_input

RECURSIVE FindStart(_, _, _, _)
RECURSIVE FoundStart(_, _, _, _, _)
FoundStartFirst(inputs, i, p_input, exact_start_date, mdate) ==
    IF p_input.fifo = << >>
    THEN [inputs |-> [inputs EXCEPT ![i] = p_input],
          exact |-> exact_start_date, i |-> i]
    ELSE IF date_Get(exact_start_date) = 0
    THEN FindStart([inputs EXCEPT ![i] = p_input], i + 1,
                   date_Set(Head(p_input.fifo).i_pts), mdate)
    ELSE FindStart([inputs EXCEPT ![i] = p_input], i + 1,
                   exact_start_date, mdate)

FindStart(inputs, i, exact_start_date, mdate) ==
    IF i >= i_nb_inputs(inputs)
    THEN [inputs |-> inputs, exact |-> exact_start_date, i |-> i]
    ELSE IF inputs[i].b_error \/ inputs[i].b_paused
    THEN FindStart(inputs, i + 1, exact_start_date, mdate)
    ELSE FoundStart(inputs, i, TrashStale(inputs[i], mdate),
                    exact_start_date, mdate)

FoundStart(inputs, i, p_input, exact_start_date, mdate) ==
    IF p_input.fifo = << >>
    THEN [inputs |-> [inputs EXCEPT ![i] = p_input],
          exact |-> exact_start_date, i |-> i]
    ELSE IF date_Get(exact_start_date) = 0
            \/ date_Get(exact_start_date) < Head(p_input.fifo).i_pts
    THEN FindStart([inputs EXCEPT ![i] = p_input], i + 1,
                   date_Set(Head(p_input.fifo).i_pts), mdate)
    ELSE FindStart([inputs EXCEPT ![i] = p_input], i + 1,
                   exact_start_date, mdate)

(***************************************************************************)
(* Step F, continuity of start_date (lines 214-231): buffers that end more *)
(* than 1 us before start_date are freed and unlinked through p_first, and *)
(* begin is reset each time.                                               *)
(***************************************************************************)
RECURSIVE DropPast(_, _)
DropPast(p_input, start_date) ==
    IF p_input.fifo # << >>
       /\ EndOf(Head(p_input.fifo)) < start_date - 1
    THEN DropPast([p_input EXCEPT !.fifo = Tail(@), !.begin = NULL,
                      !.pp_last = IF Len(p_input.fifo) = 1 THEN "gone" ELSE @],
                  start_date)
    ELSE p_input

(***************************************************************************)
(* Step F, enough samples (lines 233-270).  ScanFrom is the inner for      *)
(* loop: from the n-th buffer on, with prev_date the end of the one        *)
(* before, it stops at the first hole (drop) or at the first buffer that   *)
(* ends at or after end_date; at = 0 says it ran off the list (p_buffer is *)
(* NULL).  Enough is the outer loop and Scanned what it does with the      *)
(* outcome s of the scan: on a hole everything before it is freed, p_first *)
(* is moved to the buffer after the hole and the scan starts again.        *)
(* begin is not written here.  holes counts the holes found.               *)
(* ScanPastEnd is the scan that goes on until a buffer ends after          *)
(* end_date, EnoughBeyondHead the loop that never stops at the head.       *)
(***************************************************************************)
RECURSIVE ScanFrom(_, _, _, _)
ScanPastEnd(fifo, n, prev_date, end_date) ==
    IF n > Len(fifo) THEN [at |-> 0, drop |-> FALSE]
    ELSE IF prev_date # fifo[n].i_pts THEN [at |-> n, drop |-> TRUE]
    ELSE IF EndOf(fifo[n]) > end_date THEN [at |-> n, drop |-> FALSE]
    ELSE ScanFrom(fifo, n + 1, EndOf(fifo[n]), end_date)

ScanFrom(fifo, n, prev_date, end_date) ==
    IF n > Len(fifo) THEN [at |-> 0, drop |-> FALSE]
    ELSE IF prev_date # fifo[n].i_pts THEN [at |-> n, drop |-> TRUE]
    ELSE IF EndOf(fifo[n]) >= end_date THEN [at |-> n, drop |-> FALSE]
    ELSE ScanFrom(fifo, n + 1, EndOf(fifo[n]), end_date)

RECURSIVE Enough(_, _, _)
RECURSIVE Scanned(_, _, _, _)
EnoughBeyondHead(fifo, end_date, holes) ==
    IF fifo = << >> THEN [fifo |-> fifo, ok |-> FALSE, holes |-> holes]
    ELSE Scanned(fifo, end_date, holes,
                 ScanFrom(fifo, 2, EndOf(Head(fifo)), end_date))

Enough(fifo, end_date, holes) ==
    IF fifo = << >> THEN [fifo |-> fifo, ok |-> FALSE, holes |-> holes]
    ELSE IF EndOf(Head(fifo)) >= end_date
    THEN [fifo |-> fifo, ok |-> TRUE, holes |-> holes]
    ELSE Scanned(fifo, end_date, holes,
                 ScanFrom(fifo, 2, EndOf(Head(fifo)), end_date))

Scanned(fifo, end_date, holes, s) ==
    IF s.drop
    THEN Enough(SubSeq(fifo, s.at, Len(fifo)), end_date, holes + 1)
    ELSE [fifo |-> fifo, ok |-> s.at # 0, holes |-> holes]

(***************************************************************************)
(* Step F, the cursor of a linear format (lines 273-312).  i_buffer is     *)
(*   (start_date - i_pts) * i_bytes_per_frame * i_rate                     *)
(*        / i_frame_length / 1000000                                       *)
(* in 64-bit arithmetic; the product is reduced by the gcd of multiplier   *)
(* and divisor first, which leaves the truncated quotient as it is and     *)
(* keeps the intermediate values small.                                    *)
(* mixer_nb_bytes is begin - p_buffer->p_buffer: the offset of a cursor    *)
(* into the head, and for a stale cursor (one into an unlinked buffer) the *)
(* distance between two unrelated blocks, which may be any number: it is   *)
(* drawn as i_buffer + wild, wild ranging over distances inside and        *)
(* outside the tolerance (what follows depends on nothing else).           *)
(* Reconcile gives the cursor and whether the output clock is to be reset. *)
(***************************************************************************)
Scaled(i_date, mul, den, g) == TruncDiv(i_date * (mul \div g), den \div g)

ByteOffset(start_date, i_pts, fmt) ==
    Scaled(start_date - i_pts, fmt.i_bytes_per_frame * fmt.i_rate,
           fmt.i_frame_length * 1000000,
           GCD(fmt.i_bytes_per_frame * fmt.i_rate,
               fmt.i_frame_length * 1000000))

InTolerance(i_buffer, mixer_nb_bytes, bpf) ==
    (i_buffer + bpf > mixer_nb_bytes) /\ (i_buffer < bpf + mixer_nb_bytes)

RoundDownToFrame(i_buffer, bpf) == (i_buffer \div bpf) * bpf

RoundToFrame(i_buffer, bpf) == TruncDiv(i_buffer, bpf) * bpf

Located(begin, i_buffer, bpf, wild) ==
    IF InTolerance(i_buffer,
                   IF begin.k = "at" THEN begin.off ELSE i_buffer + wild, bpf)
    THEN [begin |-> begin, drift |-> FALSE, neg |-> FALSE]
    ELSE IF RoundToFrame(i_buffer, bpf) < 0
    THEN [begin |-> begin, drift |-> TRUE, neg |-> TRUE]
    ELSE [begin |-> At(RoundToFrame(i_buffer, bpf)),
          drift |-> TRUE, neg |-> FALSE]

Reconcile(begin, start_date, i_pts, fmt, wild) ==
    Located(IF begin.k = "null" THEN At(0) ELSE begin,
            ByteOffset(start_date, i_pts, fmt), fmt.i_bytes_per_frame, wild)

(***************************************************************************)
(* Step F for one valid input (lines 208-313): [input, brk, neg, holes].   *)
(* brk says the for loop over the inputs is left at this input.  The       *)
(* stages: AdmitPast after the past buffers were dropped, AdmitEnough      *)
(* after the scan (a cursor that was set is stale once a hole unlinked the *)
(* head it points into), AdmitCursor after the cursor was located.         *)
(***************************************************************************)
AdmitCursor(kept, holes, r) ==
    [input |-> [kept EXCEPT !.begin = r.begin],
     brk |-> r.neg, neg |-> r.neg, holes |-> holes]

AdmitKept(kept, e, start_date, fmt, wild) ==
    IF ~e.ok
    THEN [input |-> kept, brk |-> TRUE, neg |-> FALSE, holes |-> e.holes]
    ELSE IF AOUT_FMT_NON_LINEAR(fmt)
    THEN [input |-> kept, brk |-> FALSE, neg |-> FALSE, holes |-> e.holes]
    ELSE AdmitCursor(kept, e.holes,
                     Reconcile(kept.begin, start_date, Head(kept.fifo).i_pts,
                               fmt, wild))

AdmitEnough(past, e, start_date, fmt, wild) ==
    AdmitKept([past EXCEPT
                  !.fifo = e.fifo,
                  !.begin = IF e.holes > 0 /\ past.begin.k # "null"
                            THEN Stale ELSE @],
              e, start_date, fmt, wild)

AdmitPast(past, start_date, end_date, fmt, wild) ==
    IF past.fifo = << >>
    THEN [input |-> [past EXCEPT !.pp_last = "head"],
          brk |-> TRUE, neg |-> FALSE, holes |-> 0]
    ELSE AdmitEnough(past, Enough(past.fifo, end_date, 0),
                     start_date, fmt, wild)

AdmitInput(p_input, start_date, end_date, fmt, wild) ==
    IF p_input.fifo = << >>
    THEN [input |-> p_input, brk |-> TRUE, neg |-> FALSE, holes |-> 0]
    ELSE AdmitPast(DropPast(p_input, start_date), start_date, end_date,
                   fmt, wild)

(***************************************************************************)
(* Step F, the loop over the inputs (lines 193-314): [inputs, i,           *)
(* i_first_input, neg, holes], i the index the loop stopped at.            *)
(* wild[i] is what a stale cursor of input i reads as.  Admitted is the    *)
(* loop body once input i was handled with outcome a.                      *)
(* AdmitAll is the loop that takes every input for valid.                  *)
(***************************************************************************)
RECURSIVE Admit(_, _, _, _, _, _, _, _)
RECURSIVE Admitted(_, _, _, _, _, _, _, _, _)
AdmitAll(inputs, i, i_first_input, start_date, end_date, fmt, wild, holes) ==
    IF i >= i_nb_inputs(inputs)
    THEN [inputs |-> inputs, i |-> i, i_first_input |-> i_first_input,
          neg |-> FALSE, holes |-> holes]
    ELSE Admitted(inputs, i, i_first_input, start_date, end_date, fmt, wild,
                  holes,
                  AdmitInput([inputs[i] EXCEPT !.is_invalid = FALSE],
                             start_date, end_date, fmt, wild[i]))

Admit(inputs, i, i_first_input, start_date, end_date, fmt, wild, holes) ==
    IF i >= i_nb_inputs(inputs)
    THEN [inputs |-> inputs, i |-> i, i_first_input |-> i_first_input,
          neg |-> FALSE, holes |-> holes]
    ELSE IF inputs[i].b_error \/ inputs[i].b_paused
    THEN Admit([inputs EXCEPT ![i].is_invalid = TRUE], i + 1,
               IF i_first_input = i THEN i_first_input + 1 ELSE i_first_input,
               start_date, end_date, fmt, wild, holes)
    ELSE Admitted(inputs, i, i_first_input, start_date, end_date, fmt, wild,
                  holes,
                  AdmitInput([inputs[i] EXCEPT !.is_invalid = FALSE],
                             start_date, end_date, fmt, wild[i]))

Admitted(inputs, i, i_first_input, start_date, end_date, fmt, wild, holes, a) ==
    IF a.brk
    THEN [inputs |-> [inputs EXCEPT ![i] = a.input], i |-> i,
          i_first_input |-> i_first_input, neg |-> a.neg,
          holes |-> holes + a.holes]
    ELSE Admit([inputs EXCEPT ![i] = a.input], i + 1, i_first_input,
               start_date, end_date, fmt, wild, holes + a.holes)

(***************************************************************************)
(* The block handed to the kernel and to the output (lines 341-342).       *)
(* OutBlockAtEnd is the block stamped with the end of the slice.           *)
(***************************************************************************)
OutBlockAtEnd(start_date, end_date) ==
    [i_pts |-> end_date, i_length |-> end_date - start_date]

OutBlock(start_date, end_date) ==
    [i_pts |-> start_date, i_length |-> end_date - start_date]

(***************************************************************************)
(* The mixing kernel, p_mixer->mix (a plug-in).  For every input that is   *)
(* not invalid it consumes one output block:                               *)
(*   - the destination of an in-place kernel, the head of input            *)
(*     i_first_input, leaves its FIFO: it is the output block now;         *)
(*   - a linear format is consumed by bytes from begin, an exhausted head  *)
(*     being popped and freed and begin moved to the next head;            *)
(*   - a pass-through format is consumed by whole buffers.                 *)
(* A stale cursor that passed the check of Step F is read at the distance  *)
(* the check found it at.                                                  *)
(***************************************************************************)
RECURSIVE Consume(_, _, _, _)
Consume(p_input, off, nb_bytes, stale) ==
    IF p_input.fifo = << >> THEN [p_input EXCEPT !.begin = NULL]
    ELSE IF Head(p_input.fifo).i_nb_bytes - off < nb_bytes
    THEN Consume(aout_FifoPop(p_input), 0,
                 nb_bytes - Max(Head(p_input.fifo).i_nb_bytes - off, 0), FALSE)
    ELSE [p_input EXCEPT
             !.begin = IF stale THEN Stale ELSE At(off + nb_bytes)]

MixInput(p_input, is_dest, fmt, nb_bytes, start_date, wild) ==
    IF p_input.is_invalid THEN p_input
    ELSE IF is_dest \/ AOUT_FMT_NON_LINEAR(fmt)
    THEN [aout_FifoPop(p_input) EXCEPT !.begin = NULL]
    ELSE IF p_input.begin.k = "stale"
    THEN Consume(p_input,
                 ByteOffset(start_date, Head(p_input.fifo).i_pts, fmt) + wild,
                 nb_bytes, TRUE)
    ELSE Consume(p_input, p_input.begin.off, nb_bytes, FALSE)

Mix(mixer, inputs, i_first_input, nb_samples, start_date, wild) ==
    [i \in DOMAIN inputs |->
        MixInput(inputs[i], ~mixer.b_alloc /\ i = i_first_input, mixer.fmt,
                 (nb_samples * mixer.fmt.i_bytes_per_frame)
                     \div mixer.fmt.i_frame_length,
                 start_date, wild[i])]

(***************************************************************************)
(* aout_OutputPlay: the block is pushed on the output FIFO, whose end date *)
(* becomes the end of the block: set from the block when the date is 0,    *)
(* else advanced by the samples of one block.                              *)
(***************************************************************************)
aout_OutputPlay(out, block, i_rate) ==
    [out EXCEPT
        !.nb = Min(@ + 1, MaxOut),
        !.end_date = IF date_Get(@) = 0
                     THEN date_Set(block.i_pts + block.i_length)
                     ELSE date_Increment(@, out.i_nb_samples, i_rate)]

(***************************************************************************)
(* MixBuffer (lines 96-351): one tick.  wild[i] and alloc_ok are what the  *)
(* tick draws from outside: the distance a stale cursor reads as, and      *)
(* whether block_Alloc returns a block.  The result holds the new inputs   *)
(* and output FIFO, the return value, the block played (NoBlock when       *)
(* none), whether the output clock was reset (late in Step C, neg in Step  *)
(* F), how many holes Step F found, and the stages of the tick: start and  *)
(* end date and the inputs as Step F left them for the kernel.             *)
(*   MixBound   Steps B and C (lines 123-142), then Step D;                *)
(*   MixFound   Step E (lines 188-189) and Step F, d the outcome of D;     *)
(*   MixAdmitted Steps G to I (lines 316-350), a the outcome of F.         *)
(*   (MixAdmittedOrSilent lets an allocating kernel run with no valid      *)
(*   input.)                                                               *)
(***************************************************************************)
Result(inputs, out, r, block, late, neg, holes, start_date, end_date, admitted) ==
    [inputs |-> inputs, output |-> out, ret |-> r, block |-> block,
     late |-> late, neg |-> neg, holes |-> holes,
     start |-> start_date, end |-> end_date, admitted |-> admitted]

(***************************************************************************)
(* Outbuf is p_outbuf (lines 326-340): a block of block_Alloc holding the  *)
(* samples of one output block, or the head of input i_first_input when    *)
(* the kernel mixes in place; NoOutbuf is NULL (block_Alloc failed, or     *)
(* that FIFO is empty).  OutbufOfFirst takes the head of input 0.          *)
(***************************************************************************)
NoOutbuf == [from |-> "NULL"]

OutbufOfFirst(mixer, inputs, i_first_input, out, alloc_ok) ==
    IF mixer.b_alloc
    THEN IF alloc_ok
         THEN [from |-> "block_Alloc", i_nb_samples |-> out.i_nb_samples,
               i_nb_bytes |-> TruncDiv(out.i_nb_samples
                                           * mixer.fmt.i_bytes_per_frame,
                                       mixer.fmt.i_frame_length)]
         ELSE NoOutbuf
    ELSE IF inputs[0].fifo = << >> THEN NoOutbuf
    ELSE [from |-> "p_first", input |-> 0,
          i_nb_bytes |-> Head(inputs[0].fifo).i_nb_bytes]

Outbuf(mixer, inputs, i_first_input, out, alloc_ok) ==
    IF mixer.b_alloc
    THEN IF alloc_ok
         THEN [from |-> "block_Alloc", i_nb_samples |-> out.i_nb_samples,
               i_nb_bytes |-> TruncDiv(out.i_nb_samples
                                           * mixer.fmt.i_bytes_per_frame,
                                       mixer.fmt.i_frame_length)]
         ELSE NoOutbuf
    ELSE IF inputs[i_first_input].fifo = << >> THEN NoOutbuf
    ELSE [from |-> "p_first", input |-> i_first_input,
          i_nb_bytes |-> Head(inputs[i_first_input].fifo).i_nb_bytes]

Stamped(mixer, inputs, i_first_input, block) ==
    IF mixer.b_alloc THEN inputs
    ELSE [inputs EXCEPT ![i_first_input].fifo[1].i_pts = block.i_pts,
                        ![i_first_input].fifo[1].i_length = block.i_length]

MixAdmittedOrSilent(mixer, out, late, start_date, end_date, wild, alloc_ok, a) ==
    IF a.i < i_nb_inputs(a.inputs)
       \/ (a.i_first_input = i_nb_inputs(a.inputs) /\ ~mixer.b_alloc)
    THEN Result(a.inputs, IF a.neg THEN aout_FifoSet(out, 0) ELSE out, -1,
                NoBlock, late, a.neg, a.holes, start_date, end_date, a.inputs)
    ELSE IF Outbuf(mixer, a.inputs, a.i_first_input, out, alloc_ok) = NoOutbuf
    THEN Result(a.inputs, out, -1, NoBlock, late, FALSE, a.holes,
                start_date, end_date, a.inputs)
    ELSE Result(Mix(mixer,
                    Stamped(mixer, a.inputs, a.i_first_input,
                            OutBlock(start_date, end_date)),
                    a.i_first_input, out.i_nb_samples, start_date, wild),
                aout_OutputPlay(out, OutBlock(start_date, end_date),
                                mixer.fmt.i_rate),
                0, OutBlock(start_date, end_date), late, FALSE, a.holes,
                start_date, end_date, a.inputs)

MixAdmitted(mixer, out, late, start_date, end_date, wild, alloc_ok, a) ==
    IF a.i < i_nb_inputs(a.inputs) \/ a.i_first_input = i_nb_inputs(a.inputs)
    THEN Result(a.inputs, IF a.neg THEN aout_FifoSet(out, 0) ELSE out, -1,
                NoBlock, late, a.neg, a.holes, start_date, end_date, a.inputs)
    ELSE IF Outbuf(mixer, a.inputs, a.i_first_input, out, alloc_ok) = NoOutbuf
    THEN Result(a.inputs, out, -1, NoBlock, late, FALSE, a.holes,
                start_date, end_date, a.inputs)
    ELSE Result(Mix(mixer,
                    Stamped(mixer, a.inputs, a.i_first_input,
                            OutBlock(start_date, end_date)),
                    a.i_first_input, out.i_nb_samples, start_date, wild),
                aout_OutputPlay(out, OutBlock(start_date, end_date),
                                mixer.fmt.i_rate),
                0, OutBlock(start_date, end_date), late, FALSE, a.holes,
                start_date, end_date, a.inputs)

MixFound(mixer, out, late, wild, alloc_ok, d, end_date) ==
    IF d.i < i_nb_inputs(d.inputs)
    THEN Result(d.inputs, out, -1, NoBlock, late, FALSE, 0,
                date_Get(d.exact), 0, d.inputs)
    ELSE MixAdmitted(mixer, out, late, date_Get(d.exact), end_date, wild,
                     alloc_ok,
                     Admit(d.inputs, 0, 0, date_Get(d.exact), end_date,
                           mixer.fmt, wild, 0))

MixBound(mixer, inputs, out, late, mdate, wild, alloc_ok, d) ==
    MixFound(mixer, IF late THEN aout_FifoSet(out, 0) ELSE out, late, wild,
             alloc_ok, d,
             date_Get(date_Increment(d.exact, out.i_nb_samples,
                                     mixer.fmt.i_rate)))

IsLateOrDue(out, mdate) ==
    date_Get(out.end_date) # 0 /\ date_Get(out.end_date) <= mdate

IsLate(out, mdate) ==
    date_Get(out.end_date) # 0 /\ date_Get(out.end_date) < mdate

MixBuffer(mixer, inputs, out, mdate, wild, alloc_ok) ==
    IF ~mixer.bound
    THEN Result(MixDetached(inputs), out, -1, NoBlock, FALSE, FALSE, 0,
                0, 0, inputs)
    ELSE MixBound(mixer, inputs, out, IsLate(out, mdate), mdate, wild,
                  alloc_ok,
                  IF IsLate(out, mdate) \/ date_Get(out.end_date) = 0
                  THEN FindStart(inputs, 0, date_Set(0), mdate)
                  ELSE [inputs |-> inputs, exact |-> out.end_date,
                        i |-> i_nb_inputs(inputs)])

(***************************************************************************)
(* The lock and play calls of one tick, in program order, r being the      *)
(* outcome of the tick: the unbound cleanup (lines 105 and 118), Step C    *)
(* (123, 124, 142), the negative-cursor reset of Step F (304, 307), and    *)
(* the ways out: -1 from Step D (184), after Step F (319) and on a failed  *)
(* allocation (338), or 0 once the block is mixed (346, 348).              *)
(* LockCallsKept is the tick that keeps the input FIFOs locked when it     *)
(* returns -1.                                                             *)
(***************************************************************************)
LocksDetached == <<"aout_lock_input_fifos", "aout_unlock_input_fifos">>

LocksStepC ==
    <<"aout_lock_input_fifos", "aout_lock_output_fifo",
      "aout_unlock_output_fifo">>

LocksNegative == <<"aout_lock_output_fifo", "aout_unlock_output_fifo">>

LocksReturn(r) ==
    IF r = -1 THEN <<"aout_unlock_input_fifos">>
    ELSE <<"aout_unlock_input_fifos", "aout_OutputPlay">>

LockCallsKept(mixer, r) ==
    IF ~mixer.bound THEN LocksDetached
    ELSE LocksStepC \o (IF r.neg THEN LocksNegative ELSE << >>)
                    \o (IF r.ret = -1 THEN << >> ELSE LocksReturn(r.ret))

LockCalls(mixer, r) ==
    IF ~mixer.bound THEN LocksDetached
    ELSE LocksStepC \o (IF r.neg THEN LocksNegative ELSE << >>)
                    \o LocksReturn(r.ret)

(***************************************************************************)
(* The state after construction: no mixer, empty input FIFOs, the output   *)
(* date at 0.  The format of the stream is chosen once.                    *)
(***************************************************************************)
Formats == {FmtLinear, FmtSpdif}

Gains == {1, 2}

SampleCounts == {1}

InitWith(fmt, ids) ==
    /\ p_mixer = NoMixer
    /\ mixer_format = fmt
    /\ mixer_multiplier = 1
    /\ pp_inputs = [i \in ids |-> EmptyInput]
    /\ output = [end_date |-> date_Set(0), nb |-> 0,
                 i_nb_samples |-> fmt.nb_samples]
    /\ now = 0
    /\ pc = "idle"
    /\ ret = -1
    /\ lastOut = NoBlock
    /\ prevOut = NoBlock
    /\ resetSince = FALSE
    /\ resetBetween = FALSE

Init == \E fmt \in Formats : InitWith(fmt, InputIds)

mixing == <<pp_inputs, output, now, pc, ret, lastOut, prevOut, resetSince,
            resetBetween>>

(***************************************************************************)
(* aout_MixerNew (lines 44-71).  created says vlc_object_create and        *)
(* module_need both succeeded; the module that was found decides b_alloc.  *)
(* MixerNew is the call as a function: what p_aout->p_mixer is afterwards  *)
(* and the value returned.  MixerNewPublished is the call that publishes   *)
(* the mixer before module_need is known to have succeeded.                *)
(***************************************************************************)
NewMixer(fmt, multiplier, b_alloc) ==
    [bound |-> TRUE, fmt |-> fmt, b_alloc |-> b_alloc,
     multiplier |-> multiplier]

MixerNewPublished(fmt, multiplier, created, b_alloc) ==
    [p_mixer |-> NewMixer(fmt, multiplier, b_alloc),
     ret |-> IF created THEN "VLC_SUCCESS" ELSE "VLC_EGENERIC"]

MixerNew(fmt, multiplier, created, b_alloc) ==
    IF created
    THEN [p_mixer |-> NewMixer(fmt, multiplier, b_alloc),
          ret |-> "VLC_SUCCESS"]
    ELSE [p_mixer |-> NoMixer, ret |-> "VLC_EGENERIC"]

aout_MixerNew ==
    /\ pc = "idle"
    /\ ~p_mixer.bound
    /\ \E created \in BOOLEAN, b_alloc \in BOOLEAN :
          p_mixer' = MixerNew(mixer_format, mixer_multiplier, created,
                              b_alloc).p_mixer
    /\ UNCHANGED <<mixer_format, mixer_multiplier, mixing>>

(***************************************************************************)
(* aout_MixerDelete (lines 78-89).  MixerDelete is what p_aout->p_mixer is  *)
(* after the call; MixerDeleteReleased is the call that releases the mixer *)
(* and leaves the pointer to it in p_aout.                                 *)
(***************************************************************************)
MixerDeleteReleased(mixer) == mixer

MixerDelete(mixer) == IF ~mixer.bound THEN mixer ELSE NoMixer

aout_MixerDelete ==
    /\ pc = "idle"
    /\ p_mixer' = MixerDelete(p_mixer)
    /\ UNCHANGED <<mixer_format, mixer_multiplier, mixing>>

(***************************************************************************)
(* aout_MixerMultiplierSet (lines 369-374).  MultiplierSetOnAout is the    *)
(* setter that writes p_aout->mixer_multiplier only.                       *)
(***************************************************************************)
MultiplierSetOnAout(mixer, f_multiplier) == mixer

MultiplierSet(mixer, f_multiplier) ==
    IF mixer.bound THEN [mixer EXCEPT !.multiplier = f_multiplier] ELSE mixer

aout_MixerMultiplierSet ==
    /\ pc = "idle"
    /\ \E f_multiplier \in Gains :
          /\ mixer_multiplier' = f_multiplier
          /\ p_mixer' = MultiplierSet(p_mixer, f_multiplier)
    /\ UNCHANGED <<mixer_format, mixing>>

(***************************************************************************)
(* aout_MixerRun (lines 358-361): MixBuffer is called until it returns -1. *)
(* aout_MixerRun is the call with its first tick, MixerRunAgain each       *)
(* further turn of the while loop.  Played is what the loop does with the  *)
(* outcome r of a tick; PlayedOn is the loop that goes on whatever         *)
(* MixBuffer returned.                                                     *)
(***************************************************************************)
WildBytes ==
    { n * mixer_format.i_bytes_per_frame : n \in (0 - MaxWild)..MaxWild }

Contiguous(q) == \A n \in 1..(Len(q) - 1) : EndOf(q[n]) = q[n + 1].i_pts

MayDangle(p_input) ==
    \/ p_input.begin.k = "stale"
    \/ p_input.begin.k = "at" /\ ~Contiguous(p_input.fifo)

RECURSIVE WildsUpTo(_)
WildsUpTo(n) ==
    IF n = 0 THEN { [i \in {} |-> 0] }
    ELSE { [i \in 0..(n - 1) |-> IF i = n - 1 THEN x ELSE w[i]] :
             w \in WildsUpTo(n - 1),
             x \in IF MayDangle(pp_inputs[n - 1]) THEN WildBytes ELSE {0} }

Wilds == WildsUpTo(i_nb_inputs(pp_inputs))

AllocOutcomes == IF p_mixer.bound /\ p_mixer.b_alloc THEN BOOLEAN ELSE {TRUE}

PlayedOn(r) ==
    /\ pp_inputs' = r.inputs
    /\ output' = r.output
    /\ ret' = r.ret
    /\ pc' = "run"
    /\ lastOut' = IF r.ret = 0 THEN r.block ELSE lastOut
    /\ prevOut' = IF r.ret = 0 THEN lastOut ELSE prevOut
    /\ resetBetween' = IF r.ret = 0 THEN (resetSince \/ r.late)
                       ELSE resetBetween
    /\ resetSince' = IF r.ret = 0 THEN FALSE
                     ELSE (resetSince \/ r.late \/ r.neg)
    /\ UNCHANGED <<p_mixer, mixer_format, mixer_multiplier, now>>

Played(r) ==
    /\ pp_inputs' = r.inputs
    /\ output' = r.output
    /\ ret' = r.ret
    /\ pc' = IF r.ret = -1 THEN "idle" ELSE "run"
    /\ lastOut' = IF r.ret = 0 THEN r.block ELSE lastOut
    /\ prevOut' = IF r.ret = 0 THEN lastOut ELSE prevOut
    /\ resetBetween' = IF r.ret = 0 THEN (resetSince \/ r.late)
                       ELSE resetBetween
    /\ resetSince' = IF r.ret = 0 THEN FALSE
                     ELSE (resetSince \/ r.late \/ r.neg)
    /\ UNCHANGED <<p_mixer, mixer_format, mixer_multiplier, now>>

Tick(wild, alloc_ok) ==
    \E r \in {MixBuffer(p_mixer, pp_inputs, output, now, wild, alloc_ok)} :
        Played(r)

aout_MixerRun ==
    /\ pc = "idle"
    /\ \E wild \in Wilds, alloc_ok \in AllocOutcomes : Tick(wild, alloc_ok)

MixerRunAgain ==
    /\ pc = "run"
    /\ \E wild \in Wilds, alloc_ok \in AllocOutcomes : Tick(wild, alloc_ok)

(***************************************************************************)
(* The producers and the clock.  A decoder appends a buffer through the    *)
(* tail pointer under the input-FIFO lock (so between two ticks, also      *)
(* inside one aout_MixerRun), stamped no earlier than the end of the       *)
(* buffer it pushed before; it sets and clears b_error and b_paused.       *)
(***************************************************************************)
aout_FifoPush(p_input, p_buffer) ==
    CASE p_input.pp_last = "head" ->
            [p_input EXCEPT !.fifo = <<p_buffer>>, !.pp_last = "tail"]
      [] p_input.pp_last = "tail" ->
            [p_input EXCEPT !.fifo = Append(@, p_buffer)]
      [] OTHER -> p_input

Enqueue ==
    \E i \in DOMAIN pp_inputs, pts \in 0..MaxPts, samples \in SampleCounts :
        /\ Len(pp_inputs[i].fifo) < MaxQueue
        /\ pts >= pp_inputs[i].produced
        /\ pp_inputs' = [pp_inputs EXCEPT ![i] =
                [aout_FifoPush(@, NewBuffer(pts, samples, mixer_format))
                    EXCEPT !.produced =
                        EndOf(NewBuffer(pts, samples, mixer_format))]]
        /\ UNCHANGED <<p_mixer, mixer_format, mixer_multiplier, output,
                       now, pc, ret, lastOut, prevOut, resetSince,
                       resetBetween>>

SetError ==
    \E i \in DOMAIN pp_inputs :
        /\ pp_inputs' = [pp_inputs EXCEPT ![i].b_error = ~@]
        /\ UNCHANGED <<p_mixer, mixer_format, mixer_multiplier, output,
                       now, pc, ret, lastOut, prevOut, resetSince,
                       resetBetween>>

SetPaused ==
    \E i \in DOMAIN pp_inputs :
        /\ pp_inputs' = [pp_inputs EXCEPT ![i].b_paused = ~@]
        /\ UNCHANGED <<p_mixer, mixer_format, mixer_multiplier, output,
                       now, pc, ret, lastOut, prevOut, resetSince,
                       resetBetween>>

Clock ==
    /\ now < MaxNow
    /\ now' = now + 1
    /\ UNCHANGED <<p_mixer, mixer_format, mixer_multiplier, pp_inputs, output,
                   pc, ret, lastOut, prevOut, resetSince, resetBetween>>

Next ==
    \/ aout_MixerNew
    \/ aout_MixerDelete
    \/ aout_MixerMultiplierSet
    \/ aout_MixerRun
    \/ MixerRunAgain
    \/ Enqueue
    \/ SetError
    \/ SetPaused
    \/ Clock

Spec == Init /\ [][Next]_vars

(***************************************************************************)
(* SpecMix: the alignment loop with the mixer bound.  The producers have   *)
(* queued their buffers before the first aout_MixerRun: Init draws every   *)
(* input's FIFO from the well-formed queues (ordered, no overlap) and the  *)
(* kernel from the two formats and the two values of b_alloc.  The loop    *)
(* then runs while inputs are paused and resumed and the clock advances.   *)
(***************************************************************************)
Buffers(fmt) ==
    { NewBuffer(pts, samples, fmt) : pts \in 0..MaxPts, samples \in SampleCounts }

Ordered(q) == \A n \in 1..(Len(q) - 1) : EndOf(q[n]) <= q[n + 1].i_pts

Queues(fmt) ==
    { q \in UNION { [1..n -> Buffers(fmt)] : n \in 0..MaxQueue } : Ordered(q) }

Queued(q) ==
    [EmptyInput EXCEPT !.fifo = q,
                       !.pp_last = IF q = << >> THEN "head" ELSE "tail",
                       !.produced = IF q = << >> THEN 0 ELSE EndOf(q[Len(q)])]

InitMix ==
    \E fmt \in Formats, b_alloc \in BOOLEAN :
        /\ p_mixer = NewMixer(fmt, 1, b_alloc)
        /\ mixer_format = fmt
        /\ mixer_multiplier = 1
        /\ pp_inputs \in [InputIds -> { Queued(q) : q \in Queues(fmt) }]
        /\ output = [end_date |-> date_Set(0), nb |-> 0,
                     i_nb_samples |-> fmt.nb_samples]
        /\ now = 0
        /\ pc = "idle"
        /\ ret = -1
        /\ lastOut = NoBlock
        /\ prevOut = NoBlock
        /\ resetSince = FALSE
        /\ resetBetween = FALSE

NextMix ==
    \/ aout_MixerRun
    \/ MixerRunAgain
    \/ SetPaused
    \/ Clock

SpecMix == InitMix /\ [][NextMix]_vars

(***************************************************************************)
(* SpecBind: the life of the binding.  From the state after construction   *)
(* the mixer is attached, detached and its gain set, the producers push    *)
(* buffers and raise and clear b_error, and aout_MixerRun is called, with  *)
(* a mixer or without.  There is one input and the wall clock stands at 0. *)
(***************************************************************************)
InitBind == \E fmt \in Formats : InitWith(fmt, OneInput)

NextBind ==
    \/ aout_MixerNew
    \/ aout_MixerDelete
    \/ aout_MixerMultiplierSet
    \/ aout_MixerRun
    \/ MixerRunAgain
    \/ Enqueue
    \/ SetError

SpecBind == InitBind /\ [][NextBind]_vars

(***************************************************************************)
(* SpecScenes: the end-to-end scenarios, in the format Fmt48k (48 kHz,     *)
(* frames of 4 bytes, output blocks of 1024 samples), mdate() standing     *)
(* still.  Every buffer holds whole output blocks.                         *)
(*   UniformQueue  k buffers of one block each from p0 on, each as long as *)
(*                 NewBuffer makes it (21333 us);                          *)
(*   ClockedQueue  k buffers from p0 on, the n-th spanning what the output *)
(*                 clock cuts as its n-th block: the first from            *)
(*                 date_Set(p0), the following from the date               *)
(*                 aout_OutputPlay keeps (21333, 21333, 21333, 21334 us);  *)
(*   WithGap       q with its last buffer stamped gap us later.            *)
(* InitCold is a cold start of one input over such a queue (the third      *)
(* buffer 7334 us late at p0 = 0 is the queue 0, 21333, 50000).  InitDrift *)
(* is an output with two inputs: input 0 holds three blocks from 46667 on, *)
(* input 1 is paused and holds a buffer of two blocks at 100000 and one of *)
(* one block behind it; pausing input 0 and resuming input 1 once the      *)
(* three blocks were played leaves the output clock at 110666 in front of  *)
(* an input whose head starts at 100000 and whose cursor is NULL.          *)
(***************************************************************************)
MaxBlocks == 4

UniformQueue(p0, k, fmt) ==
    [n \in 1..k |->
        NewBuffer(p0 + (n - 1) * NewBuffer(p0, fmt.nb_samples, fmt).i_length,
                  fmt.nb_samples, fmt)]

RECURSIVE ClockedFrom(_, _, _)
ClockedFrom(clock, k, fmt) ==
    IF k = 0 THEN << >>
    ELSE <<[NewBuffer(date_Get(clock), fmt.nb_samples, fmt) EXCEPT
               !.i_length =
                   date_Get(date_Increment(clock, fmt.nb_samples, fmt.i_rate))
                       - date_Get(clock)]>>
         \o ClockedFrom(date_Increment(clock, fmt.nb_samples, fmt.i_rate),
                        k - 1, fmt)

ClockedQueue(p0, k, fmt) ==
    IF k = 0 THEN << >>
    ELSE <<NewBuffer(p0, fmt.nb_samples, fmt)>>
         \o ClockedFrom(date_Set(EndOf(NewBuffer(p0, fmt.nb_samples, fmt))),
                        k - 1, fmt)

WithGap(q, gap) == [q EXCEPT ![Len(q)].i_pts = @ + gap]

SceneQueues(p0, fmt) ==
    { UniformQueue(p0, k, fmt) : k \in 0..MaxBlocks }
        \cup { ClockedQueue(p0, k, fmt) : k \in 0..MaxBlocks }
        \cup { WithGap(UniformQueue(p0, k, fmt), 7334) : k \in 2..MaxBlocks }

InitScene(b_alloc, inputs, mdate) ==
    /\ p_mixer = NewMixer(Fmt48k, 1, b_alloc)
    /\ mixer_format = Fmt48k
    /\ mixer_multiplier = 1
    /\ pp_inputs = inputs
    /\ output = [end_date |-> date_Set(0), nb |-> 0,
                 i_nb_samples |-> Fmt48k.nb_samples]
    /\ now = mdate
    /\ pc = "idle"
    /\ ret = -1
    /\ lastOut = NoBlock
    /\ prevOut = NoBlock
    /\ resetSince = FALSE
    /\ resetBetween = FALSE

InitCold ==
    \E b_alloc \in BOOLEAN, p0 \in {0, 100000}, mdate \in {0, 90000} :
        /\ mdate <= p0
        /\ \E q \in SceneQueues(p0, Fmt48k) :
              InitScene(b_alloc, [i \in OneInput |-> Queued(q)], mdate)

InitDrift ==
    \E b_alloc \in BOOLEAN :
        InitScene(b_alloc,
                  [i \in InputIds |->
                      IF i = 0 THEN Queued(UniformQueue(46667, 3, Fmt48k))
                      ELSE [Queued(<<NewBuffer(100000, 2 * Fmt48k.nb_samples,
                                               Fmt48k),
                                     NewBuffer(142666, Fmt48k.nb_samples,
                                               Fmt48k)>>)
                               EXCEPT !.b_paused = TRUE]],
                  0)

InitScenes == InitCold \/ InitDrift

NextScenes ==
    \/ aout_MixerRun
    \/ MixerRunAgain
    \/ SetPaused

SpecScenes == InitScenes /\ [][NextScenes]_vars

(***************************************************************************)
(* SpecRun: calls of aout_MixerRun over queues no producer touches.  Init  *)
(* draws the binding, the FIFOs and the pause flags; the wall clock may    *)
(* advance between two ticks.  The loop of aout_MixerRun is straight-line  *)
(* code of one thread: a call that is inside the loop takes its next turn. *)
(* LoopIsFair is that weak fairness, WF_vars(MixerRunAgain), with ENABLED  *)
(* written out: a turn of the loop is enabled exactly when pc = "run", and *)
(* it is no stuttering step, for it returns -1 or moves the output date    *)
(* (TurnAdvances).                                                         *)
(***************************************************************************)
InitRun ==
    \E fmt \in Formats, b_alloc \in BOOLEAN, attached \in BOOLEAN :
        /\ p_mixer = IF attached THEN NewMixer(fmt, 1, b_alloc) ELSE NoMixer
        /\ mixer_format = fmt
        /\ mixer_multiplier = 1
        /\ pp_inputs \in [InputIds ->
                             { [Queued(q) EXCEPT !.b_paused = paused] :
                                 q \in Queues(fmt), paused \in BOOLEAN }]
        /\ output = [end_date |-> date_Set(0), nb |-> 0,
                     i_nb_samples |-> fmt.nb_samples]
        /\ now = 0
        /\ pc = "idle"
        /\ ret = -1
        /\ lastOut = NoBlock
        /\ prevOut = NoBlock
        /\ resetSince = FALSE
        /\ resetBetween = FALSE

NextRun ==
    \/ aout_MixerRun
    \/ MixerRunAgain
    \/ Clock

LoopIsFair == []<>(pc # "run") \/ []<><<MixerRunAgain>>_vars

SpecRun == InitRun /\ [][NextRun]_vars /\ LoopIsFair

(***************************************************************************)
(* SpecFlags: inputs that come and go.  There are no, one or two inputs,   *)
(* over every queue of less than MaxQueue buffers, with a mixer bound or   *)
(* not; the producers raise and clear b_error and b_paused between the     *)
(* ticks and the wall clock advances.                                      *)
(***************************************************************************)
ShortQueues(fmt) == { q \in Queues(fmt) : Len(q) <= MaxQueue - 1 }

InitFlags ==
    \E fmt \in Formats, b_alloc \in BOOLEAN, attached \in BOOLEAN,
       ids \in {{}, OneInput, InputIds} :
        /\ p_mixer = IF attached THEN NewMixer(fmt, 1, b_alloc) ELSE NoMixer
        /\ mixer_format = fmt
        /\ mixer_multiplier = 1
        /\ pp_inputs \in [ids -> { Queued(q) : q \in ShortQueues(fmt) }]
        /\ output = [end_date |-> date_Set(0), nb |-> 0,
                     i_nb_samples |-> fmt.nb_samples]
        /\ now = 0
        /\ pc = "idle"
        /\ ret = -1
        /\ lastOut = NoBlock
        /\ prevOut = NoBlock
        /\ resetSince = FALSE
        /\ resetBetween = FALSE

NextFlags ==
    \/ aout_MixerRun
    \/ MixerRunAgain
    \/ SetError
    \/ SetPaused
    \/ Clock

SpecFlags == InitFlags /\ [][NextFlags]_vars

(***************************************************************************)
(* SpecPeers: scenario S5 and its neighbours, in the format Fmt48k.  Two   *)
(* inputs hold up to MaxBlocks buffers of one block each from 100000 on,   *)
(* input 1 is paused; the kernel allocates or mixes in place.  The         *)
(* producers raise and clear b_error and b_paused between the ticks.       *)
(***************************************************************************)
InitPeers ==
    \E b_alloc \in BOOLEAN, ka \in 1..MaxBlocks, kb \in 1..MaxBlocks :
        InitScene(b_alloc,
                  [i \in InputIds |->
                      IF i = 0 THEN Queued(UniformQueue(100000, ka, Fmt48k))
                      ELSE [Queued(UniformQueue(100000, kb, Fmt48k))
                               EXCEPT !.b_paused = TRUE]],
                  0)

NextPeers ==
    \/ aout_MixerRun
    \/ MixerRunAgain
    \/ SetError
    \/ SetPaused

SpecPeers == InitPeers /\ [][NextPeers]_vars

(***************************************************************************)
(* C1  Output contiguity.  When two blocks were played one after the other *)
(* and the output clock was not reset between them (neither the late reset *)
(* of Step C nor the negative-cursor reset of Step F), the second starts   *)
(* where the first ends.                                                   *)
(***************************************************************************)
OutputContiguity ==
    (prevOut # NoBlock /\ ~resetBetween)
        => lastOut.i_pts = prevOut.i_pts + prevOut.i_length

TwoBlocksInARow ==
    /\ prevOut # NoBlock
    /\ ~resetBetween
    /\ lastOut.i_pts > prevOut.i_pts
    /\ \E i \in DOMAIN pp_inputs : ~pp_inputs[i].is_invalid

(***************************************************************************)
(* C2  No emission without coverage.  Whatever tick is taken from a        *)
(* reachable state: if it emits a block, every input that Step F did not   *)
(* mark invalid holds, as Step F left it, a head that starts no later than *)
(* the block and a gap-free chain from the head that reaches the end of    *)
(* the block.                                                              *)
(***************************************************************************)
Covers(fifo, block) ==
    /\ fifo # << >>
    /\ Head(fifo).i_pts <= block.i_pts
    /\ \E n \in 1..Len(fifo) :
          /\ Contiguous(SubSeq(fifo, 1, n))
          /\ EndOf(fifo[n]) >= block.i_pts + block.i_length

EmissionCovered(r) ==
    r.ret = 0 =>
        \A i \in DOMAIN r.admitted :
            ~r.admitted[i].is_invalid => Covers(r.admitted[i].fifo, r.block)

NoEmissionWithoutCoverage ==
    \A wild \in Wilds, alloc_ok \in AllocOutcomes :
        EmissionCovered(MixBuffer(p_mixer, pp_inputs, output, now, wild,
                                  alloc_ok))

(***************************************************************************)
(* C3  No growth while detached.  With no mixer bound, a call of           *)
(* aout_MixerRun leaves the FIFO of every input that is not in error       *)
(* empty, and no buffer that was freed is ever linked from a FIFO.         *)
(***************************************************************************)
NoFreedReachable ==
    \A i \in DOMAIN pp_inputs :
        \A n \in 1..Len(pp_inputs[i].fifo) : ~pp_inputs[i].fifo[n].freed

DetachedRunEmpties ==
    ~p_mixer.bound =>
        \A wild \in Wilds, alloc_ok \in AllocOutcomes :
            \A i \in DOMAIN pp_inputs :
                ~pp_inputs[i].b_error =>
                    MixBuffer(p_mixer, pp_inputs, output, now, wild,
                              alloc_ok).inputs[i].fifo = << >>

NoGrowthWhileDetached == DetachedRunEmpties /\ NoFreedReachable

(***************************************************************************)
(* C4  Cursor validity.  In every reachable state the begin cursor of an   *)
(* input is NULL or an offset into the payload of the buffer at the head   *)
(* of its FIFO, between 0 and the byte length of that buffer.              *)
(***************************************************************************)
ValidCursor(p_input) ==
    \/ p_input.begin.k = "null"
    \/ /\ p_input.begin.k = "at"
       /\ p_input.fifo # << >>
       /\ ~Head(p_input.fifo).freed
       /\ 0 <= p_input.begin.off
       /\ p_input.begin.off <= Head(p_input.fifo).i_nb_bytes

CursorValidity == \A i \in DOMAIN pp_inputs : ValidCursor(pp_inputs[i])

(***************************************************************************)
(* C5  Strictly increasing output timestamps.  Every block played starts   *)
(* later than the block played before it (hence later than every earlier   *)
(* block), whatever resets of the output clock and changes of the flags    *)
(* happened in between.                                                    *)
(***************************************************************************)
StrictlyIncreasingPts ==
    prevOut # NoBlock => lastOut.i_pts > prevOut.i_pts

(***************************************************************************)
(* C6  Gap drop (scenario S3), as the claim states it: a single input      *)
(* holds the buffers pts=0, pts=21333 and pts=50000, each 21333 us long,   *)
(* end_date=0 and now()=0.  The first tick emits the block [0, 21333); the *)
(* next tick (start=21333, end=42666) emits nothing, returns -1 and leaves *)
(* the first two buffers dropped, the buffer of pts=50000 being the only   *)
(* one queued.  S3Start, S3Second and S3Third are the states before the    *)
(* first, second and third tick of the scenario (block_Alloc succeeding).  *)
(***************************************************************************)
S3Queue == WithGap(UniformQueue(0, 3, Fmt48k), 7334)

S3Input ==
    /\ DOMAIN pp_inputs = OneInput
    /\ p_mixer.bound
    /\ now = 0
    /\ ~pp_inputs[0].b_error
    /\ ~pp_inputs[0].b_paused

S3Start ==
    /\ S3Input
    /\ pp_inputs[0].fifo = S3Queue
    /\ pp_inputs[0].begin = NULL
    /\ date_Get(output.end_date) = 0
    /\ lastOut = NoBlock

S3Second ==
    /\ S3Input
    /\ pc = "run"
    /\ prevOut = NoBlock
    /\ lastOut = [i_pts |-> 0, i_length |-> 21333]
    /\ pp_inputs[0].fifo \in {S3Queue, Tail(S3Queue)}

S3Third ==
    /\ S3Input
    /\ pc = "run"
    /\ prevOut = [i_pts |-> 0, i_length |-> 21333]
    /\ lastOut = [i_pts |-> 21333, i_length |-> 21333]
    /\ pp_inputs[0].fifo \in {Tail(S3Queue), Tail(Tail(S3Queue))}

GapDropOnSecondTick ==
    \A wild \in Wilds :
        /\ S3Start =>
              MixBuffer(p_mixer, pp_inputs, output, now, wild, TRUE).block
                  = [i_pts |-> 0, i_length |-> 21333]
        /\ S3Second =>
              /\ MixBuffer(p_mixer, pp_inputs, output, now, wild, TRUE).start
                    = 21333
              /\ MixBuffer(p_mixer, pp_inputs, output, now, wild, TRUE).end
                    = 42666
              /\ MixBuffer(p_mixer, pp_inputs, output, now, wild, TRUE).ret
                    = -1
              /\ MixBuffer(p_mixer, pp_inputs, output, now, wild, TRUE).block
                    = NoBlock
              /\ MixBuffer(p_mixer, pp_inputs, output, now, wild,
                           TRUE).inputs[0].fifo = Tail(Tail(S3Queue))

(***************************************************************************)
(* C6 as amended: the first tick emits [0, 21333); the next tick           *)
(* (start=21333, end=42666) is covered by the second buffer, which ends at *)
(* end_date exactly: it meets no gap, drops nothing and emits the block    *)
(* [21333, 42666).  The gap is met by the tick after it (start=42666,      *)
(* end=63999), which leaves the buffer of pts=50000 as the only one        *)
(* queued.  S3GapMet is the state after that tick returned -1.             *)
(***************************************************************************)
GapMetOnThirdTick ==
    \A wild \in Wilds :
        /\ S3Start =>
              MixBuffer(p_mixer, pp_inputs, output, now, wild, TRUE).block
                  = [i_pts |-> 0, i_length |-> 21333]
        /\ S3Second =>
              /\ MixBuffer(p_mixer, pp_inputs, output, now, wild, TRUE).start
                    = 21333
              /\ MixBuffer(p_mixer, pp_inputs, output, now, wild, TRUE).end
                    = 42666
              /\ MixBuffer(p_mixer, pp_inputs, output, now, wild, TRUE).ret
                    = 0
              /\ MixBuffer(p_mixer, pp_inputs, output, now, wild, TRUE).holes
                    = 0
              /\ MixBuffer(p_mixer, pp_inputs, output, now, wild, TRUE).block
                    = [i_pts |-> 21333, i_length |-> 21333]
              /\ MixBuffer(p_mixer, pp_inputs, output, now, wild,
                           TRUE).admitted[0].fifo = pp_inputs[0].fifo
        /\ S3Third =>
              /\ MixBuffer(p_mixer, pp_inputs, output, now, wild, TRUE).start
                    = 42666
              /\ MixBuffer(p_mixer, pp_inputs, output, now, wild, TRUE).end
                    = 63999
              /\ MixBuffer(p_mixer, pp_inputs, output, now, wild,
                           TRUE).inputs[0].fifo = Tail(Tail(S3Queue))

S3GapMet ==
    /\ S3Input
    /\ pc = "idle"
    /\ ret = -1
    /\ prevOut = [i_pts |-> 0, i_length |-> 21333]
    /\ lastOut = [i_pts |-> 21333, i_length |-> 21333]
    /\ pp_inputs[0].fifo = Tail(Tail(S3Queue))

(***************************************************************************)
(* C7  Linear cursor placement (scenario S6).  The format is linear, 48    *)
(* kHz, frames of 4 bytes and 1 sample.  Input i is the only valid input,  *)
(* its head has pts=100000 and 8192 bytes.                                 *)
(*   First tick: begin is NULL and start_date is 110666; Step F sets begin *)
(*   to byte 2048 of the payload.                                          *)
(*   Next tick: the kernel has advanced the cursor by one block of 4096    *)
(*   bytes and start_date is 132000; i_buffer is 6144 and Step F leaves    *)
(*   the cursor where the kernel put it (no drift).                        *)
(***************************************************************************)
S6Head == NewBuffer(100000, 2 * Fmt48k.nb_samples, Fmt48k)

S6Input(i) ==
    /\ p_mixer.bound
    /\ ~AOUT_FMT_NON_LINEAR(p_mixer.fmt)
    /\ ~pp_inputs[i].b_error
    /\ ~pp_inputs[i].b_paused
    /\ \A j \in DOMAIN pp_inputs \ {i} :
          pp_inputs[j].b_error \/ pp_inputs[j].b_paused
    /\ pp_inputs[i].fifo # << >>
    /\ Head(pp_inputs[i].fifo) = S6Head

S6First(i) ==
    /\ S6Input(i)
    /\ pp_inputs[i].begin = NULL
    /\ date_Get(output.end_date) = 110666

S6Second(i) ==
    /\ S6Input(i)
    /\ pp_inputs[i].begin.k = "at"
    /\ pc = "run"
    /\ lastOut.i_pts = 110666
    /\ date_Get(output.end_date) = 132000

LinearCursorPlacement ==
    \A i \in DOMAIN pp_inputs, wild \in Wilds, alloc_ok \in AllocOutcomes :
        /\ S6First(i) =>
              MixBuffer(p_mixer, pp_inputs, output, now, wild,
                        alloc_ok).admitted[i].begin = At(2048)
        /\ S6Second(i) =>
              /\ ByteOffset(MixBuffer(p_mixer, pp_inputs, output, now, wild,
                                      alloc_ok).start,
                            Head(pp_inputs[i].fifo).i_pts, p_mixer.fmt) = 6144
              /\ MixBuffer(p_mixer, pp_inputs, output, now, wild,
                           alloc_ok).admitted[i].begin = pp_inputs[i].begin

(***************************************************************************)
(* C8  Cold start with one aligned input (scenario S1).  Unplayed is what  *)
(* an input still holds for the blocks to come: its FIFO, less a head the  *)
(* kernel has read to its last byte.  A run "plays the queue" when each    *)
(* tick of it emits the block of the first unplayed buffer, with its pts,  *)
(* and the tick that finds no unplayed buffer returns -1: so one call of   *)
(* aout_MixerRun over k buffers emits exactly k blocks, the n-th with the  *)
(* pts of the n-th buffer, and returns on tick k + 1.                      *)
(*                                                                         *)
(* As the claim states it, reading "one output block long" as one block of *)
(* samples: a single valid input, now() no later than any pts, the         *)
(* unplayed buffers gap-free and of nb_samples samples each, the output    *)
(* date 0 or the pts of the first unplayed buffer.                         *)
(***************************************************************************)
Unplayed(p_input) ==
    IF p_input.fifo # << >>
       /\ p_input.begin = At(Head(p_input.fifo).i_nb_bytes)
    THEN Tail(p_input.fifo)
    ELSE p_input.fifo

SingleValidInput(inputs, mdate) ==
    /\ DOMAIN inputs = OneInput
    /\ ~inputs[0].b_error
    /\ ~inputs[0].b_paused
    /\ inputs[0].begin.k # "stale"
    /\ \A n \in 1..Len(inputs[0].fifo) :
          /\ mdate <= inputs[0].fifo[n].i_pts
          /\ ~inputs[0].fifo[n].freed

OneBlockOfSamples(q, fmt) ==
    \A n \in 1..Len(q) : q[n] = NewBuffer(q[n].i_pts, fmt.nb_samples, fmt)

ColdStartOfBlocks ==
    /\ p_mixer.bound
    /\ SingleValidInput(pp_inputs, now)
    /\ Contiguous(pp_inputs[0].fifo)
    /\ OneBlockOfSamples(Unplayed(pp_inputs[0]), p_mixer.fmt)
    /\ IF date_Get(output.end_date) = 0
       THEN pp_inputs[0].begin = NULL
       ELSE Unplayed(pp_inputs[0]) # << >> =>
                Head(Unplayed(pp_inputs[0])).i_pts = date_Get(output.end_date)

PlaysHead(q, r) ==
    IF q = << >> THEN r.ret = -1 /\ r.block = NoBlock
    ELSE /\ r.ret = 0
         /\ r.block.i_pts = Head(q).i_pts
         /\ r.block.i_length = Head(q).i_length

ColdStartPlaysEveryBuffer ==
    ColdStartOfBlocks =>
        \A wild \in Wilds :
            PlaysHead(Unplayed(pp_inputs[0]),
                      MixBuffer(p_mixer, pp_inputs, output, now, wild, TRUE))

(***************************************************************************)
(* C8 as amended: "one output block long" is the span of the block the     *)
(* output clock cuts.  The n-th unplayed buffer spans the n-th block to    *)
(* come: on a cold start the first block is cut from date_Set of the first *)
(* pts and the clock then set to its end; later blocks are cut by          *)
(* date_Increment (at 48 kHz: 21333, 21333, 21333, 21334 us, so buffers of *)
(* 21333 us each qualify up to k = 3).  Then every tick of the run plays   *)
(* the first unplayed buffer, block_Alloc succeeding, and leaves the       *)
(* queue aligned for the next tick; with nothing unplayed it returns -1.   *)
(* S1Played is scenario S1 after its run: three blocks from 100000,        *)
(* 121333 and 142666, each 21333 us, then -1.                              *)
(***************************************************************************)
RECURSIVE SpansClock(_, _, _)
SpansClock(q, clock, fmt) ==
    \/ q = << >>
    \/ /\ Head(q).i_pts = date_Get(clock)
       /\ EndOf(Head(q))
             = date_Get(date_Increment(clock, fmt.nb_samples, fmt.i_rate))
       /\ SpansClock(Tail(q),
                     date_Increment(clock, fmt.nb_samples, fmt.i_rate), fmt)

Aligned(mixer, inputs, out, mdate) ==
    /\ mixer.bound
    /\ SingleValidInput(inputs, mdate)
    /\ Contiguous(inputs[0].fifo)
    /\ IF date_Get(out.end_date) = 0
       THEN /\ inputs[0].begin = NULL
            /\ inputs[0].fifo # << >> =>
                  /\ EndOf(Head(inputs[0].fifo))
                        = date_Get(date_Increment(
                              date_Set(Head(inputs[0].fifo).i_pts),
                              mixer.fmt.nb_samples, mixer.fmt.i_rate))
                  /\ SpansClock(Tail(inputs[0].fifo),
                                date_Set(EndOf(Head(inputs[0].fifo))),
                                mixer.fmt)
       ELSE SpansClock(Unplayed(inputs[0]), out.end_date, mixer.fmt)

PlaysAligned(q, r) ==
    /\ PlaysHead(q, r)
    /\ q # << >> =>
          /\ Unplayed(r.inputs[0]) = Tail(q)
          /\ Aligned(p_mixer, r.inputs, r.output, now)

ColdStartPlaysAlignedQueue ==
    Aligned(p_mixer, pp_inputs, output, now) =>
        \A wild \in Wilds :
            PlaysAligned(Unplayed(pp_inputs[0]),
                         MixBuffer(p_mixer, pp_inputs, output, now, wild,
                                   TRUE))

S1Played ==
    /\ Aligned(p_mixer, pp_inputs, output, now)
    /\ Unplayed(pp_inputs[0]) = << >>
    /\ now = 90000
    /\ pc = "idle"
    /\ ret = -1
    /\ prevOut = [i_pts |-> 121333, i_length |-> 21333]
    /\ lastOut = [i_pts |-> 142666, i_length |-> 21333]
    /\ date_Get(output.end_date) = 163999

(***************************************************************************)
(* C9  aout_MixerRun terminates.  With no producer at work, a call that is *)
(* inside the loop leaves it: the loop goes on exactly while MixBuffer     *)
(* returns 0, each turn of it emitting one block, and ends with the first  *)
(* -1; with no mixer bound the first call of MixBuffer returns -1, so the  *)
(* loop is never entered.  TurnAdvances: a turn of the loop returns -1 or   *)
(* leaves the output date later than it found it.  RunReturned is a call   *)
(* that returned after two blocks or more.                                 *)
(***************************************************************************)
TurnAdvances ==
    pc = "run" =>
        \A wild \in Wilds, alloc_ok \in AllocOutcomes :
            \/ MixBuffer(p_mixer, pp_inputs, output, now, wild,
                         alloc_ok).ret = -1
            \/ date_Get(MixBuffer(p_mixer, pp_inputs, output, now, wild,
                                  alloc_ok).output.end_date)
                   > date_Get(output.end_date)

RunTerminates ==
    /\ [](pc = "run" <=> ret = 0)
    /\ [](~p_mixer.bound => pc = "idle")
    /\ []TurnAdvances
    /\ (pc = "run") ~> (pc = "idle")

RunReturned ==
    /\ pc = "idle"
    /\ ret = -1
    /\ prevOut # NoBlock
    /\ lastOut.i_pts > prevOut.i_pts

(***************************************************************************)
(* C10  Gain consistency.  Whenever a mixer is bound, its multiplier is    *)
(* p_aout->mixer_multiplier, the value of the last                         *)
(* aout_MixerMultiplierSet, whether that call came before or after         *)
(* aout_MixerNew.                                                          *)
(***************************************************************************)
GainConsistency ==
    p_mixer.bound => p_mixer.multiplier = mixer_multiplier

BoundWithGainSet ==
    /\ p_mixer.bound
    /\ mixer_multiplier # 1
    /\ p_mixer.multiplier = mixer_multiplier

(***************************************************************************)
(* C11  aout_MixerNew binds or leaves the output unbound.  Called with no  *)
(* mixer bound: when vlc_object_create or module_need fails it returns     *)
(* VLC_EGENERIC and no mixer is bound afterwards; when both succeed it     *)
(* returns VLC_SUCCESS and a mixer is bound whose format is                *)
(* p_aout->mixer_format.  And a step that changes the binding changes      *)
(* neither an input (FIFO, cursor, flags) nor the output FIFO and its      *)
(* date.  BoundOverQueue is a mixer bound while an input holds a buffer.   *)
(***************************************************************************)
MixerNewBindsOrNot ==
    ~p_mixer.bound =>
        \A b_alloc \in BOOLEAN :
            /\ MixerNew(mixer_format, mixer_multiplier, FALSE, b_alloc).ret
                  = "VLC_EGENERIC"
            /\ MixerNew(mixer_format, mixer_multiplier, FALSE,
                        b_alloc).p_mixer = NoMixer
            /\ MixerNew(mixer_format, mixer_multiplier, TRUE, b_alloc).ret
                  = "VLC_SUCCESS"
            /\ MixerNew(mixer_format, mixer_multiplier, TRUE,
                        b_alloc).p_mixer.bound
            /\ MixerNew(mixer_format, mixer_multiplier, TRUE,
                        b_alloc).p_mixer.fmt = mixer_format

BindingStepKeepsQueues ==
    (~p_mixer.bound /\ p_mixer' # p_mixer)
        => /\ p_mixer'.bound
           /\ p_mixer'.fmt = mixer_format
           /\ UNCHANGED <<pp_inputs, output>>

AttachBindsOrLeavesUnbound ==
    []MixerNewBindsOrNot /\ [][BindingStepKeepsQueues]_vars

BoundOverQueue ==
    /\ p_mixer.bound
    /\ p_mixer.fmt = mixer_format
    /\ pc = "idle"
    /\ lastOut = NoBlock
    /\ \E i \in DOMAIN pp_inputs :
          pp_inputs[i].fifo # << >> /\ ~Head(pp_inputs[i].fifo).freed

(***************************************************************************)
(* C12  aout_MixerDelete is idempotent and leaves the inputs alone.  On a  *)
(* bound mixer it unbinds; with no mixer bound it changes nothing, so two  *)
(* calls in a row leave what one call leaves; and a step that unbinds the  *)
(* mixer changes no input (FIFO, tail pointer, cursor, flags).             *)
(* UnboundAfterPlaying is an output that played a block, was detached and  *)
(* has a buffer queued.                                                    *)
(***************************************************************************)
MixerDeleteOnce ==
    /\ ~MixerDelete(p_mixer).bound
    /\ ~p_mixer.bound => MixerDelete(p_mixer) = p_mixer
    /\ MixerDelete(MixerDelete(p_mixer)) = MixerDelete(p_mixer)

UnbindingStepKeepsInputs ==
    (p_mixer.bound /\ ~p_mixer'.bound)
        => /\ p_mixer' = NoMixer
           /\ UNCHANGED <<pp_inputs, output, mixer_format, mixer_multiplier>>

DetachIdempotent ==
    []MixerDeleteOnce /\ [][UnbindingStepKeepsInputs]_vars

UnboundAfterPlaying ==
    /\ ~p_mixer.bound
    /\ lastOut # NoBlock
    /\ \E i \in DOMAIN pp_inputs :
          pp_inputs[i].fifo # << >> /\ ~Head(pp_inputs[i].fifo).freed

(***************************************************************************)
(* C13  Start-date discovery, as the claim states it.  A tick that enters  *)
(* Step D with start_date = 0 (the output date is 0, or was reset as late) *)
(* and is not interrupted there leaves, d being the outcome of Step D and  *)
(* the valid inputs those with neither b_error nor b_paused:               *)
(*   - every valid input with a head whose pts is at least mdate();        *)
(*   - the FIFO of a valid input less the stale buffers it started with,   *)
(*     and its begin NULL if one was popped, untouched if none;            *)
(*   - start_date the largest head pts of the valid inputs;                *)
(*   - in every valid input a buffer that ends at or after start_date.     *)
(***************************************************************************)
EntersDiscovery ==
    /\ p_mixer.bound
    /\ IsLate(output, now) \/ date_Get(output.end_date) = 0

ValidInputs == { i \in DOMAIN pp_inputs :
                   ~pp_inputs[i].b_error /\ ~pp_inputs[i].b_paused }

StaleCount(fifo, mdate) ==
    Cardinality({ n \in 1..Len(fifo) :
                    \A m \in 1..n : fifo[m].i_pts < mdate })

HeadsInTime(d) ==
    \A i \in ValidInputs :
        /\ d.inputs[i].fifo # << >>
        /\ Head(d.inputs[i].fifo).i_pts >= now

StalePopped(d) ==
    \A i \in ValidInputs :
        /\ d.inputs[i].fifo
              = SubSeq(pp_inputs[i].fifo,
                       StaleCount(pp_inputs[i].fifo, now) + 1,
                       Len(pp_inputs[i].fifo))
        /\ d.inputs[i].begin
              = IF StaleCount(pp_inputs[i].fifo, now) > 0 THEN NULL
                ELSE pp_inputs[i].begin

LatestHead(d) ==
    \A i \in ValidInputs :
        /\ Head(d.inputs[i].fifo).i_pts <= date_Get(d.exact)
        /\ \E j \in ValidInputs :
              Head(d.inputs[j].fifo).i_pts = date_Get(d.exact)

ReachesStart(d) ==
    \A i \in ValidInputs :
        \E n \in 1..Len(d.inputs[i].fifo) :
            EndOf(d.inputs[i].fifo[n]) >= date_Get(d.exact)

Discovered(d) ==
    d.i = i_nb_inputs(pp_inputs) =>
        HeadsInTime(d) /\ StalePopped(d) /\ LatestHead(d) /\ ReachesStart(d)

DiscoveryReachesStart ==
    EntersDiscovery => Discovered(FindStart(pp_inputs, 0, date_Set(0), now))

(***************************************************************************)
(* C13 as amended: the same, with the last item replaced by: every valid   *)
(* input has a head that starts at or before start_date.  Whether a buffer *)
(* of the input reaches start_date is left to Step F.                      *)
(* DiscoveredAfterReset is a block played from a start date found after    *)
(* the output date was reset, mdate() having advanced.                     *)
(***************************************************************************)
DiscoveredHeads(d) ==
    d.i = i_nb_inputs(pp_inputs) =>
        HeadsInTime(d) /\ StalePopped(d) /\ LatestHead(d)

DiscoveryFindsLatestHead ==
    EntersDiscovery =>
        DiscoveredHeads(FindStart(pp_inputs, 0, date_Set(0), now))

DiscoveredAfterReset ==
    /\ prevOut # NoBlock
    /\ resetBetween
    /\ ret = 0
    /\ now > 0
    /\ lastOut.i_pts >= now
    /\ \E i \in DOMAIN pp_inputs : ~pp_inputs[i].is_invalid

(***************************************************************************)
(* C14  Negative-cursor clock reset, as the claim states it.  Discovery is *)
(* what Step D hands to Step F in the present state and CutEnd the end     *)
(* date Step E cuts.  CursorInput(p) is input p as the cursor check of     *)
(* Step F finds it (past buffers dropped, holes skipped), and Arrives(i)   *)
(* says the loop of Step F gets to the cursor check of input i.  For a     *)
(* linear format, whenever the cursor of such an input is out of tolerance *)
(* and i_buffer rounded down (toward minus infinity) to a multiple of      *)
(* i_bytes_per_frame is negative, the tick returns -1 with no block, the   *)
(* output FIFO empty and its date 0, the cursor is not set to a negative   *)
(* offset, and the next tick enters Step D.  A cursor left dangling by a   *)
(* hole drop reads as any distance from the head (wild).                   *)
(***************************************************************************)
Discovery ==
    IF IsLate(output, now) \/ date_Get(output.end_date) = 0
    THEN FindStart(pp_inputs, 0, date_Set(0), now)
    ELSE [inputs |-> pp_inputs, exact |-> output.end_date,
          i |-> i_nb_inputs(pp_inputs)]

CutEnd(d) ==
    date_Get(date_Increment(d.exact, output.i_nb_samples, p_mixer.fmt.i_rate))

Scan(past, end_date) ==
    IF past.fifo = << >> THEN [ok |-> FALSE, fifo |-> << >>, holes |-> 0]
    ELSE Enough(past.fifo, end_date, 0)

CursorKept(past, e) ==
    [past EXCEPT !.fifo = e.fifo,
                 !.begin = IF e.holes > 0 /\ past.begin.k # "null"
                           THEN Stale ELSE @]

CursorInput(p_input, start_date, end_date) ==
    CursorKept(DropPast(p_input, start_date),
               Scan(DropPast(p_input, start_date), end_date))

Checked(p_input, start_date, end_date) ==
    /\ ~p_input.b_error /\ ~p_input.b_paused
    /\ p_input.fifo # << >>
    /\ Scan(DropPast(p_input, start_date), end_date).ok

Arrives(d, i, wild) ==
    /\ d.i = i_nb_inputs(d.inputs)
    /\ ~AOUT_FMT_NON_LINEAR(p_mixer.fmt)
    /\ Checked(d.inputs[i], date_Get(d.exact), CutEnd(d))
    /\ \A j \in DOMAIN d.inputs :
          (j < i /\ ~d.inputs[j].b_error /\ ~d.inputs[j].b_paused) =>
              ~AdmitInput(d.inputs[j], date_Get(d.exact), CutEnd(d),
                          p_mixer.fmt, wild[j]).brk

CursorBytes(begin, i_buffer, wild) ==
    IF begin.k = "at" THEN begin.off
    ELSE IF begin.k = "null" THEN 0
    ELSE i_buffer + wild

OutOfTolerance(k, start_date, wild) ==
    ~InTolerance(ByteOffset(start_date, Head(k.fifo).i_pts, p_mixer.fmt),
                 CursorBytes(k.begin,
                             ByteOffset(start_date, Head(k.fifo).i_pts,
                                        p_mixer.fmt), wild),
                 p_mixer.fmt.i_bytes_per_frame)

NegativeDown(k, start_date) ==
    RoundDownToFrame(ByteOffset(start_date, Head(k.fifo).i_pts, p_mixer.fmt),
                     p_mixer.fmt.i_bytes_per_frame) < 0

ClockReset(r, i, k) ==
    /\ r.ret = -1
    /\ r.block = NoBlock
    /\ r.output.nb = 0
    /\ date_Get(r.output.end_date) = 0
    /\ r.inputs[i].begin = IF k.begin.k = "null" THEN At(0) ELSE k.begin
    /\ r.inputs[i].fifo = k.fifo

ResetWhenDown(d, wild, alloc_ok) ==
    \A i \in DOMAIN d.inputs :
        ( /\ Arrives(d, i, wild)
          /\ OutOfTolerance(CursorInput(d.inputs[i], date_Get(d.exact),
                                        CutEnd(d)),
                            date_Get(d.exact), wild[i])
          /\ NegativeDown(CursorInput(d.inputs[i], date_Get(d.exact),
                                      CutEnd(d)),
                          date_Get(d.exact)) )
        => ClockReset(MixBuffer(p_mixer, pp_inputs, output, now, wild,
                                alloc_ok), i,
                      CursorInput(d.inputs[i], date_Get(d.exact), CutEnd(d)))

NegativeCursorReset ==
    p_mixer.bound =>
        \A wild \in Wilds, alloc_ok \in AllocOutcomes :
            ResetWhenDown(Discovery, wild, alloc_ok)

(***************************************************************************)
(* C15  Late-output reset.  In a tick with a mixer bound:                  *)
(*   - if the output date is not 0 and strictly before mdate(), the output *)
(*     FIFO is emptied and its date set to 0 (what the tick returns it as  *)
(*     when it plays nothing; a block played is pushed on the emptied      *)
(*     FIFO), and the tick goes on with the start date Step D finds;       *)
(*   - if the output date is 0 or at least mdate(), Step C leaves the FIFO *)
(*     and its date alone, and Step D runs only when the date is 0:        *)
(*     otherwise the start date is the output date and no head is popped   *)
(*     for being older than mdate() (a head that is not in the past of the *)
(*     start date stays unless Step F meets a hole).                       *)
(* LateResetPlayed: a block played right after a late reset.               *)
(***************************************************************************)
OutputIsLate ==
    date_Get(output.end_date) # 0 /\ date_Get(output.end_date) < now

ThroughStepD(r) ==
    /\ r.start = date_Get(FindStart(pp_inputs, 0, date_Set(0), now).exact)
    /\ FindStart(pp_inputs, 0, date_Set(0), now).i < i_nb_inputs(pp_inputs)
          => r.ret = -1
               /\ r.inputs = FindStart(pp_inputs, 0, date_Set(0), now).inputs

LateReset(r) ==
    /\ r.late
    /\ ThroughStepD(r)
    /\ r.ret = -1 => r.output = aout_FifoSet(output, 0)
    /\ r.ret = 0 => r.output = aout_OutputPlay(aout_FifoSet(output, 0),
                                               r.block, p_mixer.fmt.i_rate)

PoppedForAge(r) ==
    \E i \in DOMAIN pp_inputs :
        /\ pp_inputs[i].fifo # << >>
        /\ EndOf(Head(pp_inputs[i].fifo)) >= r.start - 1
        /\ Head(pp_inputs[i].fifo).i_pts < now
        /\ r.holes = 0
        /\ r.admitted[i].fifo # pp_inputs[i].fifo

NoLateReset(r) ==
    /\ ~r.late
    /\ (r.ret = -1 /\ ~r.neg) => r.output = output
    /\ r.ret = 0 => r.output = aout_OutputPlay(output, r.block,
                                               p_mixer.fmt.i_rate)
    /\ date_Get(output.end_date) = 0 => ThroughStepD(r)
    /\ date_Get(output.end_date) # 0 =>
          /\ r.start = date_Get(output.end_date)
          /\ ~PoppedForAge(r)

LateOutputReset ==
    p_mixer.bound =>
        \A wild \in Wilds, alloc_ok \in AllocOutcomes :
            IF OutputIsLate
            THEN LateReset(MixBuffer(p_mixer, pp_inputs, output, now, wild,
                                     alloc_ok))
            ELSE NoLateReset(MixBuffer(p_mixer, pp_inputs, output, now, wild,
                                       alloc_ok))

LateResetPlayed ==
    /\ p_mixer.bound
    /\ ret = 0
    /\ resetBetween
    /\ prevOut # NoBlock
    /\ EndOf(prevOut) < now
    /\ lastOut.i_pts >= now
    /\ date_Get(output.end_date) = EndOf(lastOut)

(***************************************************************************)
(* C16  Lock discipline of MixBuffer.  Running the calls of a tick from    *)
(* both locks free: the output FIFO lock is taken only while the input     *)
(* FIFO lock is held and is released before it, a lock is taken only when  *)
(* free and released only when held, aout_OutputPlay is called with the    *)
(* input FIFO lock free, and both locks are free when the tick returns.    *)
(* ResetUnderLock: a tick has just returned -1 through the negative-cursor *)
(* reset, the path that takes the output FIFO lock a second time.          *)
(***************************************************************************)
LocksFree == [input |-> FALSE, output |-> FALSE, ok |-> TRUE]

LockStep(h, call) ==
    IF call = "aout_lock_input_fifos"
    THEN [h EXCEPT !.input = TRUE, !.ok = h.ok /\ ~h.input /\ ~h.output]
    ELSE IF call = "aout_lock_output_fifo"
    THEN [h EXCEPT !.output = TRUE, !.ok = h.ok /\ h.input /\ ~h.output]
    ELSE IF call = "aout_unlock_output_fifo"
    THEN [h EXCEPT !.output = FALSE, !.ok = h.ok /\ h.input /\ h.output]
    ELSE IF call = "aout_unlock_input_fifos"
    THEN [h EXCEPT !.input = FALSE, !.ok = h.ok /\ h.input /\ ~h.output]
    ELSE [h EXCEPT !.ok = h.ok /\ ~h.input]

RECURSIVE LocksAfter(_, _)
LocksAfter(h, calls) ==
    IF calls = << >> THEN h
    ELSE LocksAfter(LockStep(h, Head(calls)), Tail(calls))

Disciplined(calls) == LocksAfter(LocksFree, calls) = LocksFree

PlaysOnce(calls, r) ==
    Cardinality({ n \in 1..Len(calls) : calls[n] = "aout_OutputPlay" })
        = IF r.ret = 0 THEN 1 ELSE 0

LockDiscipline ==
    \A wild \in Wilds, alloc_ok \in AllocOutcomes :
        /\ Disciplined(LockCalls(p_mixer,
                                 MixBuffer(p_mixer, pp_inputs, output, now,
                                           wild, alloc_ok)))
        /\ PlaysOnce(LockCalls(p_mixer,
                               MixBuffer(p_mixer, pp_inputs, output, now,
                                         wild, alloc_ok)),
                     MixBuffer(p_mixer, pp_inputs, output, now, wild,
                               alloc_ok))

ResetUnderLock ==
    /\ p_mixer.bound
    /\ ~AOUT_FMT_NON_LINEAR(p_mixer.fmt)
    /\ ret = -1
    /\ resetSince
    /\ lastOut # NoBlock
    /\ now <= EndOf(lastOut)
    /\ output.nb = 0
    /\ date_Get(output.end_date) = 0
    /\ \E i \in DOMAIN pp_inputs :
          /\ ~pp_inputs[i].b_error /\ ~pp_inputs[i].b_paused
          /\ pp_inputs[i].fifo # << >>
          /\ Head(pp_inputs[i].fifo).i_pts > EndOf(lastOut)
          /\ pp_inputs[i].begin = At(0)

(***************************************************************************)
(* C17  Invalid inputs are untouched, as the claim states it: in any tick, *)
(* with a mixer bound or not, an input with b_error or b_paused            *)
(*   - keeps its FIFO (the buffers, none freed, and the tail pointer) and  *)
(*     its cursor as they were when MixBuffer is through with the inputs   *)
(*     (CoreLeft: before the kernel runs, or at the return of -1);         *)
(*   - is not the input whose head the block of an in-place kernel is;     *)
(*   - does not make the tick return -1 by being empty: the tick returns   *)
(*     what it returns with the FIFO of that input emptied.                *)
(***************************************************************************)
InvalidInputs == { i \in DOMAIN pp_inputs :
                     pp_inputs[i].b_error \/ pp_inputs[i].b_paused }

CoreLeft(r) == IF r.ret = 0 THEN r.admitted ELSE r.inputs

KeepsQueue(r, i) ==
    /\ CoreLeft(r)[i].fifo = pp_inputs[i].fifo
    /\ CoreLeft(r)[i].pp_last = pp_inputs[i].pp_last
    /\ CoreLeft(r)[i].begin = pp_inputs[i].begin

FirstInput(d, wild) ==
    Admit(d.inputs, 0, 0, date_Get(d.exact), CutEnd(d), p_mixer.fmt, wild,
          0).i_first_input

NotDestination(r, i, wild) ==
    (r.ret = 0 /\ ~p_mixer.b_alloc) => FirstInput(Discovery, wild) # i

Emptied(i) == [pp_inputs EXCEPT ![i].fifo = << >>, ![i].pp_last = "head"]

NotMissed(r, i, wild, alloc_ok) ==
    r.ret = MixBuffer(p_mixer, Emptied(i), output, now, wild, alloc_ok).ret

InvalidLeftAlone(r, wild, alloc_ok) ==
    \A i \in InvalidInputs :
        /\ KeepsQueue(r, i)
        /\ NotDestination(r, i, wild)
        /\ NotMissed(r, i, wild, alloc_ok)

InvalidInputsUntouched ==
    \A wild \in Wilds, alloc_ok \in AllocOutcomes :
        InvalidLeftAlone(MixBuffer(p_mixer, pp_inputs, output, now, wild,
                                   alloc_ok), wild, alloc_ok)

(***************************************************************************)
(* C17 as amended: the same for a tick with a mixer bound; in a tick with  *)
(* no mixer bound an input with b_error keeps its FIFO and cursor, and the *)
(* buffers of an input that is only paused are freed like those of any     *)
(* other.                                                                  *)
(* PlayedPastInvalid: a block was played while input 0 was invalid with    *)
(* buffers queued, an in-place kernel taking the head of input 1.          *)
(***************************************************************************)
DetachedLeftAlone(r) ==
    \A i \in DOMAIN pp_inputs :
        IF pp_inputs[i].b_error THEN KeepsQueue(r, i)
        ELSE r.inputs[i].fifo = FreeAll(pp_inputs[i].fifo)

InvalidInputsUntouchedWhenBound ==
    \A wild \in Wilds, alloc_ok \in AllocOutcomes :
        IF p_mixer.bound
        THEN InvalidLeftAlone(MixBuffer(p_mixer, pp_inputs, output, now, wild,
                                        alloc_ok), wild, alloc_ok)
        ELSE DetachedLeftAlone(MixBuffer(p_mixer, pp_inputs, output, now,
                                         wild, alloc_ok))

PlayedPastInvalid ==
    /\ p_mixer.bound
    /\ ~p_mixer.b_alloc
    /\ pc = "run"
    /\ ret = 0
    /\ DOMAIN pp_inputs = InputIds
    /\ pp_inputs[0].b_error \/ pp_inputs[0].b_paused
    /\ pp_inputs[0].fifo # << >>
    /\ Head(pp_inputs[0].fifo).i_pts = lastOut.i_pts
    /\ pp_inputs[0].begin = NULL
    /\ ~pp_inputs[1].b_error /\ ~pp_inputs[1].b_paused

(***************************************************************************)
(* C18  Destination selection.  When a tick plays a block:                 *)
(*   - the block starts at the start date of the tick and lasts to the end *)
(*     date cut from it;                                                   *)
(*   - with b_alloc, p_outbuf is a block of block_Alloc whose i_nb_samples *)
(*     is output.i_nb_samples;                                             *)
(*   - without, p_outbuf is the head of the input of smallest index that   *)
(*     has neither b_error nor b_paused, and that head carries the date    *)
(*     and length of the block.                                            *)
(* Scenario S5 (both heads at 100000, input 1 paused, input 0 valid, the   *)
(* kernel mixing in place, a cold start): the tick plays, p_outbuf is the  *)
(* head of input 0 and the block is stamped 100000.                        *)
(* S5Played: S5 after that tick.                                           *)
(***************************************************************************)
SmallestValid ==
    CHOOSE i \in ValidInputs : \A j \in ValidInputs : i <= j

BlockDated(r) ==
    /\ r.block.i_pts = date_Get(Discovery.exact)
    /\ r.block.i_length = CutEnd(Discovery) - date_Get(Discovery.exact)

Destined(r, o) ==
    IF p_mixer.b_alloc
    THEN o.from = "block_Alloc" /\ o.i_nb_samples = output.i_nb_samples
    ELSE /\ o.from = "p_first"
         /\ ValidInputs # {}
         /\ o.input = SmallestValid
         /\ Stamped(p_mixer, r.admitted, o.input, r.block)[o.input].fifo[1]
              = [r.admitted[o.input].fifo[1] EXCEPT
                    !.i_pts = r.block.i_pts, !.i_length = r.block.i_length]

S5 ==
    /\ DOMAIN pp_inputs = InputIds
    /\ ~p_mixer.b_alloc
    /\ date_Get(output.end_date) = 0
    /\ now <= 100000
    /\ ~pp_inputs[0].b_error /\ ~pp_inputs[0].b_paused
    /\ ~pp_inputs[1].b_error /\ pp_inputs[1].b_paused
    /\ \A i \in InputIds :
          /\ pp_inputs[i].fifo # << >>
          /\ Head(pp_inputs[i].fifo).i_pts = 100000
          /\ pp_inputs[i].begin = NULL

S5Destined(r, o) ==
    S5 => /\ r.ret = 0
          /\ r.block.i_pts = 100000
          /\ o = [from |-> "p_first", input |-> 0,
                  i_nb_bytes |-> Head(pp_inputs[0].fifo).i_nb_bytes]

Selected(r, o) ==
    /\ r.ret = 0 => BlockDated(r) /\ Destined(r, o)
    /\ S5Destined(r, o)

DestinationSelection ==
    p_mixer.bound =>
        \A wild \in Wilds, alloc_ok \in AllocOutcomes :
            Selected(MixBuffer(p_mixer, pp_inputs, output, now, wild,
                               alloc_ok),
                     Outbuf(p_mixer,
                            Admit(Discovery.inputs, 0, 0,
                                  date_Get(Discovery.exact),
                                  CutEnd(Discovery), p_mixer.fmt, wild,
                                  0).inputs,
                            FirstInput(Discovery, wild), output, alloc_ok))

S5Played ==
    /\ DOMAIN pp_inputs = InputIds
    /\ ~p_mixer.b_alloc
    /\ pc = "run"
    /\ ret = 0
    /\ prevOut = NoBlock
    /\ lastOut.i_pts = 100000
    /\ ~pp_inputs[0].b_error /\ ~pp_inputs[0].b_paused
    /\ pp_inputs[0].fifo # << >>
    /\ Head(pp_inputs[0].fifo).i_pts = EndOf(lastOut)
    /\ pp_inputs[1].b_paused
    /\ pp_inputs[1].fifo # << >>
    /\ Head(pp_inputs[1].fifo).i_pts = 100000

(***************************************************************************)
(* C19  No valid input means no output, as the claim states it: in a tick  *)
(* in which every input has b_error or b_paused, or with no input at all,  *)
(* MixBuffer returns -1, no block is made or played (the output FIFO is    *)
(* as it was, or emptied with date 0 when Step C found it late), the       *)
(* kernel is not run, and every input keeps its FIFO and cursor.           *)
(***************************************************************************)
NothingPlayed(r) ==
    /\ r.ret = -1
    /\ r.block = NoBlock
    /\ r.output = IF p_mixer.bound /\ OutputIsLate
                  THEN aout_FifoSet(output, 0) ELSE output
    /\ \A n \in 1..Len(LockCalls(p_mixer, r)) :
          LockCalls(p_mixer, r)[n] # "aout_OutputPlay"

QueuesKept(r) ==
    \A i \in DOMAIN pp_inputs :
        /\ r.inputs[i].fifo = pp_inputs[i].fifo
        /\ r.inputs[i].pp_last = pp_inputs[i].pp_last
        /\ r.inputs[i].begin = pp_inputs[i].begin

NoValidInputNoOutput ==
    ValidInputs = {} =>
        \A wild \in Wilds, alloc_ok \in AllocOutcomes :
            /\ NothingPlayed(MixBuffer(p_mixer, pp_inputs, output, now, wild,
                                       alloc_ok))
            /\ QueuesKept(MixBuffer(p_mixer, pp_inputs, output, now, wild,
                                    alloc_ok))

(***************************************************************************)
(* C19 as amended: the same for a tick with a mixer bound; a tick with no  *)
(* mixer bound returns -1 and plays nothing either, but keeps the FIFOs of *)
(* the inputs with b_error only.                                           *)
(* NoValidAfterLateReset: a bound tick has returned -1 with the output     *)
(* date reset as late, over two invalid inputs one of which holds buffers. *)
(***************************************************************************)
ErroredKept(r) ==
    \A i \in DOMAIN pp_inputs :
        pp_inputs[i].b_error => r.inputs[i] = pp_inputs[i]

NoValidInputNoOutputWhenBound ==
    ValidInputs = {} =>
        \A wild \in Wilds, alloc_ok \in AllocOutcomes :
            /\ NothingPlayed(MixBuffer(p_mixer, pp_inputs, output, now, wild,
                                       alloc_ok))
            /\ IF p_mixer.bound
               THEN QueuesKept(MixBuffer(p_mixer, pp_inputs, output, now,
                                         wild, alloc_ok))
               ELSE ErroredKept(MixBuffer(p_mixer, pp_inputs, output, now,
                                          wild, alloc_ok))

NoValidAfterLateReset ==
    /\ p_mixer.bound
    /\ pc = "idle"
    /\ ret = -1
    /\ DOMAIN pp_inputs = InputIds
    /\ ValidInputs = {}
    /\ \E i \in InputIds : pp_inputs[i].fifo # << >>
    /\ lastOut # NoBlock
    /\ EndOf(lastOut) < now
    /\ resetSince
    /\ output.nb = 0
    /\ date_Get(output.end_date) = 0

(***************************************************************************)
(* C20  Queue well-formedness under interleaved producers.  After every    *)
(* tick, with a mixer bound or not and whatever it returns, the FIFO of    *)
(* each input links no freed buffer and its pp_last designates the p_next  *)
(* of the last buffer, or p_first when the FIFO is empty; a buffer that a  *)
(* producer then pushes becomes the last of the FIFO, behind buffers that  *)
(* are all live.                                                           *)
(***************************************************************************)
WellFormed(p_input) ==
    /\ \A n \in 1..Len(p_input.fifo) : ~p_input.fifo[n].freed
    /\ p_input.pp_last = IF p_input.fifo = << >> THEN "head" ELSE "tail"

AppendReaches(p_input) ==
    \A p_buffer \in Buffers(mixer_format) :
        /\ aout_FifoPush(p_input, p_buffer).fifo
              = Append(p_input.fifo, p_buffer)
        /\ WellFormed(aout_FifoPush(p_input, p_buffer))

WellFormedAfter(r) ==
    \A i \in DOMAIN pp_inputs :
        WellFormed(r.inputs[i]) /\ AppendReaches(r.inputs[i])

QueueWellFormedness ==
    \A wild \in Wilds, alloc_ok \in AllocOutcomes :
        WellFormedAfter(MixBuffer(p_mixer, pp_inputs, output, now, wild,
                                  alloc_ok))

=============================================================================
